---- MODULE Spec2Model ----
(***************************************************************************)
(* A model of the webhook adapter of function.go: the Cloud Function entry *)
(* point F, the dispatcher processPayload, and the renderers gcpToDiscord, *)
(* adaptyMapToDiscord and adaptyToDiscord.                                 *)
(*                                                                         *)
(* function.go holds two variants of the program.  Lines 1-884 are the     *)
(* map-form variant (adaptyMapToDiscord, verification probes in F); lines  *)
(* 885-1488 are the strict-form variant (adaptyToDiscord over the typed    *)
(* AdaptyEvent, no probes).  The variable `variant` says which one runs.   *)
(*                                                                         *)
(* JSON values are tagged records; a JSON object is a record over the      *)
(* fixed key set of its level, with Absent for a key that is missing.      *)
(* Rendered text is a sequence of pieces (tagged records), so that a       *)
(* formatted string keeps the parts it was formatted from.                 *)
(***************************************************************************)
EXTENDS Integers, Sequences, FiniteSets, TLC

VARIABLES variant, env, req, pc, bodyRead, status, resp, perr, tried, msg, target, posts, outcome, now

vars == <<variant, env, req, pc, bodyRead, status, resp, perr, tried, msg, target, posts, outcome, now>>

(***************************************************************************)
(* JSON values                                                             *)
(***************************************************************************)
Absent == [t |-> "absent"]
Null == [t |-> "null"]
Str(s) == [t |-> "str", v |-> s]
Num(n) == [t |-> "num", v |-> n]
\* a JSON number with a fractional part, v in hundredths
Frac(c) == [t |-> "frac", v |-> c]
Bool(b) == [t |-> "bool", v |-> b]
Obj(o) == [t |-> "obj", v |-> o]
Arr == [t |-> "arr"]

\* v.(string) of Go: the value and whether the assertion succeeded.
IsStr(v) == v.t = "str"
StrOf(v) == IF v.t = "str" THEN v.v ELSE ""
IntOf(v) == IF v.t = "num" THEN v.v ELSE 0
BoolOf(v) == IF v.t = "bool" THEN v.v ELSE FALSE

TypeOKPresentOnly(v, ty) ==
  \/ ty = "string" /\ v.t = "str"
  \/ ty = "int64" /\ v.t = "num"
  \/ ty = "float64" /\ v.t \in {"num", "frac"}
  \/ ty = "bool" /\ v.t = "bool"

\* encoding/json decoding a JSON value into a Go field of static type ty:
\* a missing key and a JSON null leave the field at its zero value, a value
\* of another JSON type is an UnmarshalTypeError.
TypeOK(v, ty) ==
  \/ v.t \in {"absent", "null"}
  \/ ty = "string" /\ v.t = "str"
  \/ ty = "int64" /\ v.t = "num"
  \/ ty = "float64" /\ v.t \in {"num", "frac"}
  \/ ty = "bool" /\ v.t = "bool"

\* A struct-typed (or pointer-to-struct) field: an object whose own fields
\* all decode, or absent/null.
StructOK(v, schema) ==
  \/ v.t \in {"absent", "null"}
  \/ v.t = "obj" /\ \A k \in DOMAIN schema : TypeOK(v.v[k], schema[k])

(***************************************************************************)
(* Rendered text                                                           *)
(***************************************************************************)
Lit(s) == [k |-> "lit", s |-> s]
Rfc3339(n) == [k |-> "rfc3339", n |-> n]
Count(n) == [k |-> "count", n |-> n]
\* "$%.2f" and "%.2f" of an amount, c in hundredths
Usd(c) == [k |-> "usd", c |-> c]
Dec2(c) == [k |-> "dec2", c |-> c]
Pretty(s) == [k |-> "pretty", s |-> s]

Contains(text, piece) == \E i \in 1..Len(text) : text[i] = piece

Field(name, value) == [Name |-> name, Value |-> value, Inline |-> TRUE]

FieldNames(fields) == [i \in 1..Len(fields) |-> fields[i].Name]

HasField(fields, name) == \E i \in 1..Len(fields) : fields[i].Name = name

FieldIndex(fields, name) == CHOOSE i \in 1..Len(fields) : fields[i].Name = name

FieldValue(fields, name) == fields[FieldIndex(fields, name)].Value

NoMsg == [k |-> "none"]

(***************************************************************************)
(* Monitoring incidents: type Notification / Incident and gcpToDiscord     *)
(***************************************************************************)
IncidentKeys ==
  {"scoping_project_id", "incident_id", "resource_id", "resource_name", "state",
   "started_at", "ended_at", "policy_name", "condition_name", "url", "summary"}

\* The Go type of each field of Incident, by its json tag.
IncidentSchema ==
  [k \in IncidentKeys |-> IF k \in {"started_at", "ended_at"} THEN "int64" ELSE "string"]

\* The keys an incident object of a request may carry: those of Incident, and
\* project_id, which no field of Incident is tagged with and the decoder skips.
IncidentWireKeys == IncidentKeys \cup {"project_id"}

NoIncident == [k \in IncidentWireKeys |-> Absent]

ZeroIncident ==
  [ProjectID |-> "", IncidentID |-> "", State |-> "", StartedAt |-> 0, EndedAt |-> 0,
   PolicyName |-> "", ConditionName |-> "", URL |-> "", Summary |-> ""]

\* json.Unmarshal(body, &gcpNotification): gcpErr and the decoded value.
DecodeNotification(body) ==
  IF body.t = "null" THEN [err |-> FALSE, Incident |-> ZeroIncident]
  ELSE IF body.t # "obj" THEN [err |-> TRUE, Incident |-> ZeroIncident]
  ELSE LET inc == body.v.incident
           bad == ~StructOK(inc, IncidentSchema) \/ ~TypeOK(body.v.version, "string")
       IN IF inc.t # "obj" THEN [err |-> bad, Incident |-> ZeroIncident]
          ELSE [err |-> bad,
                Incident |->
                  [ProjectID |-> StrOf(inc.v.scoping_project_id),
                   IncidentID |-> StrOf(inc.v.incident_id),
                   State |-> StrOf(inc.v.state),
                   StartedAt |-> IntOf(inc.v.started_at),
                   EndedAt |-> IntOf(inc.v.ended_at),
                   PolicyName |-> StrOf(inc.v.policy_name),
                   ConditionName |-> StrOf(inc.v.condition_name),
                   URL |-> StrOf(inc.v.url),
                   Summary |-> StrOf(inc.v.summary)]]

\* humanize.RelTime(a, b, "", "") after strings.TrimSpace: the phrase of the
\* magnitude table of go-humanize for the distance between a and b (seconds).
Abs(n) == IF n < 0 THEN -n ELSE n

RelTime(a, b) ==
  LET d == Abs(b - a)
  IN IF d < 1 THEN <<Lit("now")>>
     ELSE IF d < 2 THEN <<Lit("1 second")>>
     ELSE IF d < 60 THEN <<Count(d), Lit(" seconds")>>
     ELSE IF d < 120 THEN <<Lit("1 minute")>>
     ELSE IF d < 3600 THEN <<Count(d \div 60), Lit(" minutes")>>
     ELSE IF d < 7200 THEN <<Lit("1 hour")>>
     ELSE IF d < 86400 THEN <<Count(d \div 3600), Lit(" hours")>>
     ELSE IF d < 172800 THEN <<Lit("1 day")>>
     ELSE IF d < 604800 THEN <<Count(d \div 86400), Lit(" days")>>
     ELSE <<Lit("1 week or more")>>

Placeholder == "-"

OrPlaceholderDropped(s) == s

\* projectId / policyName / conditionName := the field, or "-" when empty.
OrPlaceholder(s) == IF s = "" THEN Placeholder ELSE s

gcpTimeFieldsAlwaysEnded(inc) ==
  (IF inc.StartedAt > 0 THEN <<Field("Started at", <<Rfc3339(inc.StartedAt)>>)>> ELSE <<>>)
  \o (IF inc.EndedAt > 0
      THEN <<Field("Ended at",
                   <<Rfc3339(inc.EndedAt), Lit(" (")>>
                   \o RelTime(inc.StartedAt, inc.EndedAt) \o <<Lit(")")>>)>>
      ELSE <<>>)

\* The "Started at" and "Ended at" fields; startedDt / endedDt are set only
\* from a positive epoch, and "Ended at" is nested under "Started at".
gcpTimeFields(inc) ==
  IF inc.StartedAt > 0
  THEN <<Field("Started at", <<Rfc3339(inc.StartedAt)>>)>>
       \o (IF inc.EndedAt > 0
           THEN <<Field("Ended at",
                        <<Rfc3339(inc.EndedAt), Lit(" (")>>
                        \o RelTime(inc.StartedAt, inc.EndedAt) \o <<Lit(")")>>)>>
           ELSE <<>>)
  ELSE <<>>

gcpFields(inc) ==
  <<Field("Project ID", <<Lit(OrPlaceholder(inc.ProjectID))>>),
    Field("Incident ID", <<Lit(inc.IncidentID)>>),
    Field("Condition", <<Lit(OrPlaceholder(inc.ConditionName))>>)>>
  \o gcpTimeFields(inc)

ColorOpen == 16007725
ColorClosed == 1619771

gcpIsOpenAnyState(inc) == inc.State # ""

\* notification.Incident.State == "open"
gcpIsOpen(inc) == inc.State = "open"

gcpColor(inc) == IF gcpIsOpen(inc) THEN ColorOpen ELSE ColorClosed

gcpTitle(inc) ==
  <<Lit("\""), Lit(OrPlaceholder(inc.ProjectID)), Lit("\" - Incident "),
    Lit(IF gcpIsOpen(inc) THEN "opened" ELSE "closed"),
    Lit(" for \""), Lit(OrPlaceholder(inc.PolicyName)), Lit("\"")>>

gcpSummary(inc) == IF inc.Summary # "" THEN inc.Summary ELSE "No summary available."

gcpToDiscordRenderTimeField(n, ts) ==
  [k |-> "msg",
   Username |-> "GCP Monitoring",
   AvatarURL |-> "https://www.gstatic.com/images/branding/product/2x/stackdriver_64dp.png",
   Embeds |->
     <<[Title |-> gcpTitle(n.Incident),
        Description |-> <<Lit(gcpSummary(n.Incident))>>,
        URL |-> n.Incident.URL,
        Color |-> gcpColor(n.Incident),
        Fields |-> gcpFields(n.Incident) \o <<Field("Rendered at", <<Rfc3339(ts)>>)>>,
        Timestamp |-> ts,
        Footer |-> "GCP Monitoring Alert"]>>]

gcpToDiscord(n, ts) ==
  [k |-> "msg",
   Username |-> "GCP Monitoring",
   AvatarURL |-> "https://www.gstatic.com/images/branding/product/2x/stackdriver_64dp.png",
   Embeds |->
     <<[Title |-> gcpTitle(n.Incident),
        Description |-> <<Lit(gcpSummary(n.Incident))>>,
        URL |-> n.Incident.URL,
        Color |-> gcpColor(n.Incident),
        Fields |-> gcpFields(n.Incident),
        Timestamp |-> ts,
        Footer |-> "GCP Monitoring Alert"]>>]

(***************************************************************************)
(* Subscription events, map form: adaptyMapToDiscord and its helpers       *)
(***************************************************************************)
PropsKeys ==
  {"transaction_id", "vendor_product_id", "base_plan_id", "store", "environment",
   "price_usd", "proceeds_usd", "profile_has_access_level", "will_renew",
   "purchase_date", "subscription_expires_at", "pause_start_date", "auto_resume_date",
   "deferred_expiration_date", "cancellation_reason", "billing_error", "access_level",
   "paywall_name", "ab_test_name"}

NoProps == [k \in PropsKeys |-> Absent]

ColorGray == 7506394

\* colors of adaptyMapToDiscord, by event_type.
MapColors ==
  [subscription_started |-> 3066993,
   subscription_renewed |-> 3447003,
   subscription_expired |-> 16776960,
   subscription_canceled |-> 15158332,
   trial_started |-> 10181046,
   trial_converted |-> 3066993,
   trial_expired |-> 15158332,
   non_subscription_purchase |-> 3066993,
   subscription_in_grace_period |-> 16776960,
   transaction_refunded |-> 15158332,
   subscription_renewal_cancelled |-> 15158332,
   subscription_renewal_reactivated |-> 3066993,
   subscription_paused |-> 16776960,
   subscription_deferred |-> 16776960,
   trial_renewal_cancelled |-> 15158332,
   trial_renewal_reactivated |-> 3066993,
   entered_grace_period |-> 16776960,
   billing_issue_detected |-> 15158332,
   subscription_refunded |-> 15158332,
   non_subscription_purchase_refunded |-> 15158332,
   access_level_updated |-> 3447003]

\* createMapEventDescription, first switch: the generic sentence of a type.
MapGenericSentence ==
  [subscription_started |-> "A new subscription has been started.",
   subscription_renewed |-> "A subscription has been successfully renewed.",
   subscription_expired |-> "A subscription has expired.",
   subscription_canceled |-> "A subscription has been canceled.",
   subscription_in_grace_period |-> "A subscription is in grace period due to billing issues.",
   trial_started |-> "A new trial period has started.",
   trial_converted |-> "A trial has been converted to a paid subscription.",
   trial_expired |-> "A trial period has expired.",
   non_subscription_purchase |-> "A one-time purchase has been completed.",
   transaction_refunded |-> "A transaction has been refunded.",
   subscription_renewal_cancelled |-> "Auto-renewal for a subscription has been cancelled.",
   subscription_renewal_reactivated |-> "Auto-renewal for a subscription has been reactivated.",
   subscription_paused |-> "A subscription has been paused.",
   subscription_deferred |-> "A subscription renewal has been deferred to a later date.",
   trial_renewal_cancelled |-> "Auto-renewal for a trial has been cancelled.",
   trial_renewal_reactivated |-> "Auto-renewal for a trial has been reactivated.",
   entered_grace_period |-> "A subscription has entered a grace period due to billing issues.",
   billing_issue_detected |-> "A billing issue has been detected for a subscription.",
   subscription_refunded |-> "A subscription payment has been refunded.",
   non_subscription_purchase_refunded |-> "A one-time purchase has been refunded.",
   access_level_updated |-> "A user's access level has been updated."]

\* createMapEventDescription, second switch: the text before and after the
\* product identifier.
MapProductSentence ==
  [subscription_started |-> <<"A new subscription for **", "** has been started.">>,
   subscription_renewed |-> <<"The subscription for **", "** has been successfully renewed.">>,
   subscription_expired |-> <<"The subscription for **", "** has expired.">>,
   subscription_canceled |-> <<"The subscription for **", "** has been canceled.">>,
   subscription_in_grace_period |-> <<"The subscription for **", "** is in grace period due to billing issues.">>,
   trial_started |-> <<"A new trial period for **", "** has started.">>,
   trial_converted |-> <<"The trial for **", "** has been converted to a paid subscription.">>,
   trial_expired |-> <<"The trial period for **", "** has expired.">>,
   non_subscription_purchase |-> <<"A one-time purchase of **", "** has been completed.">>,
   transaction_refunded |-> <<"A transaction for **", "** has been refunded.">>,
   subscription_renewal_cancelled |-> <<"Auto-renewal for the **", "** subscription has been cancelled.">>,
   subscription_renewal_reactivated |-> <<"Auto-renewal for the **", "** subscription has been reactivated.">>,
   subscription_paused |-> <<"The subscription for **", "** has been paused.">>,
   subscription_deferred |-> <<"The renewal for the **", "** subscription has been deferred to a later date.">>,
   trial_renewal_cancelled |-> <<"Auto-renewal for the **", "** trial has been cancelled.">>,
   trial_renewal_reactivated |-> <<"Auto-renewal for the **", "** trial has been reactivated.">>,
   entered_grace_period |-> <<"The subscription for **", "** has entered a grace period due to billing issues.">>,
   billing_issue_detected |-> <<"A billing issue has been detected for the **", "** subscription.">>,
   subscription_refunded |-> <<"A subscription payment for **", "** has been refunded.">>,
   non_subscription_purchase_refunded |-> <<"A one-time purchase of **", "** has been refunded.">>,
   access_level_updated |-> <<"Access level related to **", "** has been updated.">>]

\* createMapEventDescription, third switch: the text before and after the
\* price.
MapPriceSentence ==
  [subscription_started |-> <<"A new subscription has been started for ", ".">>,
   non_subscription_purchase |-> <<"A one-time purchase has been completed for ", ".">>,
   subscription_refunded |-> <<"A subscription payment of ", " has been refunded.">>,
   non_subscription_purchase_refunded |-> <<"A one-time purchase of ", " has been refunded.">>]

\* formatEventType of the map-form variant: the label of a known type.
MapLabels ==
  [subscription_started |-> "Subscription Started",
   subscription_renewed |-> "Subscription Renewed",
   subscription_expired |-> "Subscription Expired",
   subscription_canceled |-> "Subscription Canceled",
   subscription_in_grace_period |-> "Subscription in Grace Period",
   trial_started |-> "Trial Started",
   trial_converted |-> "Trial Converted",
   trial_expired |-> "Trial Expired",
   non_subscription_purchase |-> "One-time Purchase",
   transaction_refunded |-> "Transaction Refunded",
   subscription_renewal_cancelled |-> "Subscription Renewal Cancelled",
   subscription_renewal_reactivated |-> "Subscription Renewal Reactivated",
   subscription_paused |-> "Subscription Paused",
   subscription_deferred |-> "Subscription Deferred",
   trial_renewal_cancelled |-> "Trial Renewal Cancelled",
   trial_renewal_reactivated |-> "Trial Renewal Reactivated",
   entered_grace_period |-> "Entered Grace Period",
   billing_issue_detected |-> "Billing Issue Detected",
   subscription_refunded |-> "Subscription Refunded",
   non_subscription_purchase_refunded |-> "One-time Purchase Refunded",
   access_level_updated |-> "Access Level Updated"]

\* The bytes of the strings the model uses as event types outside the tables.
Chars(s) ==
  CASE s = "" -> <<>>
    [] s = "custom_event" -> <<"c", "u", "s", "t", "o", "m", "_", "e", "v", "e", "n", "t">>
    [] s = "transaction_completed" -> <<"t", "r", "a", "n", "s", "a", "c", "t", "i", "o", "n", "_", "c", "o", "m", "p", "l", "e", "t", "e", "d">>
    [] s = "transaction_restored" -> <<"t", "r", "a", "n", "s", "a", "c", "t", "i", "o", "n", "_", "r", "e", "s", "t", "o", "r", "e", "d">>
    [] s = "a__b" -> <<"a", "_", "_", "b">>
    [] s = "_x" -> <<"_", "x">>
    [] s = "isMount" -> <<"i", "s", "M", "o", "u", "n", "t">>

\* strings.ToUpper of one letter.
ToUpper(c) ==
  LET lower == <<"a", "b", "c", "d", "e", "f", "g", "h", "i", "j", "k", "l", "m",
                 "n", "o", "p", "q", "r", "s", "t", "u", "v", "w", "x", "y", "z">>
      upper == <<"A", "B", "C", "D", "E", "F", "G", "H", "I", "J", "K", "L", "M",
                 "N", "O", "P", "Q", "R", "S", "T", "U", "V", "W", "X", "Y", "Z">>
  IN IF \E i \in 1..26 : lower[i] = c
     THEN upper[CHOOSE i \in 1..26 : lower[i] = c]
     ELSE c

\* strings.Split(s, "_") on a sequence of bytes: the segments, empty ones kept.
RECURSIVE SplitUnderscore(_)
SplitUnderscore(cs) ==
  IF \A i \in 1..Len(cs) : cs[i] # "_" THEN <<cs>>
  ELSE LET i == CHOOSE j \in 1..Len(cs) :
                  cs[j] = "_" /\ \A h \in 1..(j - 1) : cs[h] # "_"
       IN <<SubSeq(cs, 1, i - 1)>> \o SplitUnderscore(SubSeq(cs, i + 1, Len(cs)))

\* parts[i] = strings.ToUpper(part[0:1]) + part[1:], for a non-empty part.
Capitalize(part) ==
  IF Len(part) > 0 THEN <<ToUpper(part[1])>> \o SubSeq(part, 2, Len(part)) ELSE part

\* strings.Join(parts, " ")
RECURSIVE JoinSpace(_)
JoinSpace(parts) ==
  IF Len(parts) = 0 THEN <<>>
  ELSE IF Len(parts) = 1 THEN parts[1]
  ELSE parts[1] \o <<" ">> \o JoinSpace(Tail(parts))

LitChars(cs) == [i \in 1..Len(cs) |-> Lit(cs[i])]

MapFormatEventTypeNoCapitals(eventType) ==
  IF eventType \in DOMAIN MapLabels THEN <<Lit(MapLabels[eventType])>>
  ELSE LitChars(JoinSpace(SplitUnderscore(Chars(eventType))))

\* formatEventType of the map-form variant.
MapFormatEventType(eventType) ==
  IF eventType \in DOMAIN MapLabels THEN <<Lit(MapLabels[eventType])>>
  ELSE LET parts == SplitUnderscore(Chars(eventType))
       IN LitChars(JoinSpace([i \in 1..Len(parts) |-> Capitalize(parts[i])]))

\* time.Parse of the two layouts formatDate tries, on the date strings of the
\* model.
DateMicro == "2024-01-15T10:30:00.000000+0000"
DateRfc == "2024-01-15T10:30:00Z"
DateBad == "next tuesday"

ParsesMicroLayout(s) == s = DateMicro
ParsesRFC3339(s) == s = DateRfc

\* formatDate: the reformatted time, or the original string when neither
\* layout parses it.
formatDate(isoDate) ==
  IF ParsesMicroLayout(isoDate) \/ ParsesRFC3339(isoDate)
  THEN <<Pretty(isoDate)>>
  ELSE <<Lit(isoDate)>>

\* x, ok := m[key].(string); ok && x != ""
StrField(v, name) ==
  IF IsStr(v) /\ v.v # "" THEN <<Field(name, <<Lit(v.v)>>)>> ELSE <<>>

DateField(v, name) ==
  IF IsStr(v) /\ v.v # "" THEN <<Field(name, formatDate(v.v))>> ELSE <<>>

\* x, ok := m[key].(bool); ok
YesNoField(v, name) ==
  IF v.t = "bool" THEN <<Field(name, <<Lit(IF v.v THEN "Yes" ELSE "No")>>)>> ELSE <<>>

\* x, ok := m[key].(float64)
IsFloat(v) == v.t \in {"num", "frac"}
CentsOf(v) == IF v.t = "num" THEN 100 * v.v ELSE v.v

RevenueField(props) ==
  IF IsFloat(props.price_usd)
  THEN <<Field("Revenue (USD)",
               <<Usd(CentsOf(props.price_usd))>>
               \o (IF IsFloat(props.proceeds_usd)
                   THEN <<Lit(" (Net: "), Usd(CentsOf(props.proceeds_usd)), Lit(")")>>
                   ELSE <<>>))>>
  ELSE <<>>

\* event[key] of a map[string]interface{} that may be nil.
MapGet(event, key) == IF event.t = "obj" THEN event.v[key] ELSE Absent

\* eventProps, hasEventProps := event["event_properties"].(map[string]interface{})
EventProps(event) == MapGet(event, "event_properties")
HasEventProps(event) == EventProps(event).t = "obj"

adaptyMapPropsFields(props) ==
  StrField(props.transaction_id, "Transaction ID")
  \o StrField(props.vendor_product_id, "Product")
  \o StrField(props.base_plan_id, "Base Plan")
  \o StrField(props.store, "Store")
  \o StrField(props.environment, "Environment")
  \o RevenueField(props)
  \o YesNoField(props.profile_has_access_level, "Has Access")
  \o YesNoField(props.will_renew, "Will Renew")
  \o DateField(props.purchase_date, "Purchase Date")
  \o DateField(props.subscription_expires_at, "Expires At")
  \o DateField(props.pause_start_date, "Pause Start Date")
  \o DateField(props.auto_resume_date, "Auto Resume Date")
  \o DateField(props.deferred_expiration_date, "Deferred Expiration")
  \o StrField(props.cancellation_reason, "Cancellation Reason")
  \o StrField(props.billing_error, "Billing Error")
  \o StrField(props.access_level, "Access Level")
  \o StrField(props.paywall_name, "Paywall")
  \o StrField(props.ab_test_name, "A/B Test")

adaptyMapFieldsPropsFirst(event) ==
  (IF HasEventProps(event) THEN adaptyMapPropsFields(EventProps(event).v) ELSE <<>>)
  \o StrField(MapGet(event, "customer_user_id"), "User")
  \o StrField(MapGet(event, "email"), "Email")
  \o StrField(MapGet(event, "profile_id"), "Profile ID")

adaptyMapFields(event) ==
  StrField(MapGet(event, "customer_user_id"), "User")
  \o StrField(MapGet(event, "email"), "Email")
  \o StrField(MapGet(event, "profile_id"), "Profile ID")
  \o (IF HasEventProps(event) THEN adaptyMapPropsFields(EventProps(event).v) ELSE <<>>)

\* eventType := ""; if et, ok := event["event_type"].(string); ok { eventType = et }
MapEventType(event) == StrOf(MapGet(event, "event_type"))

MapColorOfAlwaysGray(eventType) == ColorGray

\* color := 7506394; if c, exists := colors[eventType]; exists { color = c }
MapColorOf(eventType) ==
  IF eventType \in DOMAIN MapColors THEN MapColors[eventType] ELSE ColorGray

\* The part of createMapEventDescription under `if eventProps != nil`: the
\* product, price and access-level sentences, or none of them.
MapEnhancedDescription(eventType, props) ==
  LET productID == StrOf(props.vendor_product_id)
  IN IF productID # "" /\ eventType \in DOMAIN MapProductSentence
     THEN <<Lit(MapProductSentence[eventType][1]), Lit(productID),
            Lit(MapProductSentence[eventType][2])>>
     ELSE IF IsFloat(props.price_usd) /\ eventType \in DOMAIN MapPriceSentence
     THEN <<Lit(MapPriceSentence[eventType][1]), Usd(CentsOf(props.price_usd)),
            Lit(MapPriceSentence[eventType][2])>>
     ELSE IF eventType = "access_level_updated"
             /\ IsStr(props.access_level) /\ props.access_level.v # ""
     THEN <<Lit("User access level has been updated to **"), Lit(props.access_level.v),
            Lit("**.")>>
     ELSE <<>>

\* createMapEventDescription(eventType, eventProps): the first switch returns
\* the generic sentence of every type it lists before the enhanced sentences
\* are looked at.
createMapEventDescription(eventType, eventProps) ==
  IF eventType \in DOMAIN MapGenericSentence
  THEN <<Lit(MapGenericSentence[eventType])>>
  ELSE IF eventProps.t = "obj" /\ MapEnhancedDescription(eventType, eventProps.v) # <<>>
  THEN MapEnhancedDescription(eventType, eventProps.v)
  ELSE <<Lit("Received event: "), Lit(eventType)>>

AdaptyAvatar == "https://avatars.githubusercontent.com/u/55606573"

adaptyMapToDiscord(event, ts) ==
  [k |-> "msg",
   Username |-> "Adapty",
   AvatarURL |-> AdaptyAvatar,
   Embeds |->
     <<[Title |-> <<Lit("Adapty: ")>> \o MapFormatEventType(MapEventType(event)),
        Description |-> createMapEventDescription(MapEventType(event), EventProps(event)),
        URL |-> "",
        Color |-> MapColorOf(MapEventType(event)),
        Fields |-> adaptyMapFields(event),
        Timestamp |-> ts,
        Footer |-> "Adapty Subscription Management"]>>]

(***************************************************************************)
(* Subscription events, strict form: type AdaptyEvent and adaptyToDiscord  *)
(***************************************************************************)
DataKeys ==
  {"event", "profile_id", "customer_user_id", "subscription", "transaction",
   "new_status", "previous_status", "product"}

SubscriptionKeys ==
  {"id", "status", "store", "product_id", "expires_at", "canceled_at", "started_at",
   "renewed_at", "is_sandbox"}

TransactionKeys ==
  {"id", "offer_id", "product_id", "purchased_at", "is_restored", "value", "currency",
   "store", "is_sandbox"}

ProductKeys == {"vendor_product_id", "base_plan_id"}

NoData == [k \in DataKeys |-> Absent]
NoSubscription == [k \in SubscriptionKeys |-> Absent]
NoTransaction == [k \in TransactionKeys |-> Absent]

\* The Go types of AdaptySubscription, AdaptyTransaction and AdaptyProduct.
SubscriptionSchema ==
  [k \in SubscriptionKeys |->
     IF k \in {"expires_at", "canceled_at", "started_at", "renewed_at"} THEN "int64"
     ELSE IF k = "is_sandbox" THEN "bool" ELSE "string"]

TransactionSchema ==
  [k \in TransactionKeys |->
     IF k = "purchased_at" THEN "int64"
     ELSE IF k = "value" THEN "float64"
     ELSE IF k \in {"is_restored", "is_sandbox"} THEN "bool" ELSE "string"]

ProductSchema == [k \in ProductKeys |-> "string"]

\* AdaptyEventData: the fields decode, and so do the nested structs.
DataOK(v) ==
  \/ v.t \in {"absent", "null"}
  \/ /\ v.t = "obj"
     /\ \A k \in {"profile_id", "customer_user_id", "new_status", "previous_status"} :
          TypeOK(v.v[k], "string")
     /\ StructOK(v.v.subscription, SubscriptionSchema)
     /\ StructOK(v.v.transaction, TransactionSchema)
     /\ StructOK(v.v.product, ProductSchema)

SubGet(v, key) == IF v.t = "obj" THEN v.v[key] ELSE Absent

\* json.Unmarshal(body, &adaptyEvent): adaptyErr and the decoded value.  A
\* nested pointer field is nil unless the key holds an object.
DecodeAdaptyEvent(body) ==
  IF body.t = "null" \/ body.t # "obj"
  THEN [err |-> body.t # "null", Event |-> "", EventType |-> "",
        Data |-> [ProfileID |-> "", CustomerUserID |-> "",
                  Subscription |-> Absent, Transaction |-> Absent]]
  ELSE LET d == body.v.data
       IN [err |-> \/ ~TypeOK(body.v.event, "string")
                   \/ ~TypeOK(body.v.event_type, "string")
                   \/ ~TypeOK(body.v.timestamp, "int64")
                   \/ ~DataOK(d),
           Event |-> StrOf(body.v.event),
           EventType |-> StrOf(body.v.event_type),
           Data |-> [ProfileID |-> StrOf(SubGet(d, "profile_id")),
                     CustomerUserID |-> StrOf(SubGet(d, "customer_user_id")),
                     Subscription |-> SubGet(d, "subscription"),
                     Transaction |-> SubGet(d, "transaction")]]

\* colors of adaptyToDiscord, by event_type.
StrictColors ==
  [subscription_started |-> 3066993,
   subscription_renewed |-> 3447003,
   subscription_expired |-> 16776960,
   subscription_canceled |-> 15158332,
   trial_started |-> 10181046,
   trial_converted |-> 3066993,
   trial_expired |-> 15158332,
   transaction_completed |-> 3066993,
   transaction_restored |-> 3447003,
   transaction_refunded |-> 15158332]

\* formatEventType of the strict-form variant: the label of a known type.
StrictLabels ==
  [subscription_started |-> "Subscription Started",
   subscription_renewed |-> "Subscription Renewed",
   subscription_expired |-> "Subscription Expired",
   subscription_canceled |-> "Subscription Canceled",
   trial_started |-> "Trial Started",
   trial_converted |-> "Trial Converted",
   trial_expired |-> "Trial Expired",
   transaction_completed |-> "Transaction Completed",
   transaction_restored |-> "Transaction Restored",
   transaction_refunded |-> "Transaction Refunded"]

\* createEventDescription: the sentence of a known type.
StrictSentence ==
  [subscription_started |-> "A new subscription has been started.",
   subscription_renewed |-> "A subscription has been successfully renewed.",
   subscription_expired |-> "A subscription has expired.",
   subscription_canceled |-> "A subscription has been canceled.",
   trial_started |-> "A new trial period has started.",
   trial_converted |-> "A trial has been converted to a paid subscription.",
   trial_expired |-> "A trial period has expired.",
   transaction_completed |-> "A transaction has been completed successfully.",
   transaction_restored |-> "A transaction has been restored.",
   transaction_refunded |-> "A transaction has been refunded."]

\* formatEventType of the strict-form variant.
StrictFormatEventType(eventType) ==
  IF eventType \in DOMAIN StrictLabels THEN <<Lit(StrictLabels[eventType])>>
  ELSE <<Lit(eventType)>>

StrictColorOf(eventType) ==
  IF eventType \in DOMAIN StrictColors THEN StrictColors[eventType] ELSE ColorGray

\* createEventDescription
createEventDescription(event) ==
  IF event.EventType \in DOMAIN StrictSentence
  THEN <<Lit(StrictSentence[event.EventType])>>
  ELSE <<Lit("Received event: "), Lit(event.EventType)>>

EpochField(n, name) == IF n > 0 THEN <<Field(name, <<Rfc3339(n)>>)>> ELSE <<>>

\* if event.Data.Subscription != nil { ... }
strictSubscriptionFields(sub) ==
  IF sub.t # "obj" THEN <<>>
  ELSE <<Field("Product", <<Lit(StrOf(sub.v.product_id))>>),
         Field("Status", <<Lit(StrOf(sub.v.status))>>),
         Field("Store", <<Lit(StrOf(sub.v.store))>>),
         Field("Environment",
               <<Lit(IF BoolOf(sub.v.is_sandbox) THEN "Sandbox" ELSE "Production")>>)>>
       \o EpochField(IntOf(sub.v.started_at), "Started At")
       \o EpochField(IntOf(sub.v.expires_at), "Expires At")

\* if event.Data.Transaction != nil { ... }
strictTransactionFields(sub, txn) ==
  IF txn.t # "obj" THEN <<>>
  ELSE (IF StrOf(txn.v.product_id) # ""
           /\ (sub.t # "obj" \/ StrOf(sub.v.product_id) = "")
        THEN <<Field("Product", <<Lit(StrOf(txn.v.product_id))>>)>> ELSE <<>>)
       \o <<Field("Transaction ID", <<Lit(StrOf(txn.v.id))>>)>>
       \o (IF IsFloat(txn.v.value) /\ CentsOf(txn.v.value) > 0
           THEN <<Field("Amount",
                        <<Dec2(CentsOf(txn.v.value)), Lit(" "), Lit(StrOf(txn.v.currency))>>)>>
           ELSE <<>>)
       \o (IF BoolOf(txn.v.is_sandbox) THEN <<Field("Environment", <<Lit("Sandbox")>>)>>
           ELSE IF sub.t # "obj" THEN <<Field("Environment", <<Lit("Production")>>)>>
           ELSE <<>>)
       \o (IF BoolOf(txn.v.is_restored) THEN <<Field("Restored", <<Lit("Yes")>>)>> ELSE <<>>)

adaptyFields(event) ==
  (IF event.Data.CustomerUserID # ""
   THEN <<Field("User", <<Lit(event.Data.CustomerUserID)>>)>> ELSE <<>>)
  \o <<Field("Profile ID", <<Lit(event.Data.ProfileID)>>)>>
  \o strictSubscriptionFields(event.Data.Subscription)
  \o strictTransactionFields(event.Data.Subscription, event.Data.Transaction)

adaptyToDiscordEmbedPerField(event, ts) ==
  [k |-> "msg",
   Username |-> "Adapty",
   AvatarURL |-> AdaptyAvatar,
   Embeds |->
     [i \in 1..Len(adaptyFields(event)) |->
        [Title |-> <<Lit("Adapty: ")>> \o StrictFormatEventType(event.EventType),
         Description |-> createEventDescription(event),
         URL |-> "",
         Color |-> StrictColorOf(event.EventType),
         Fields |-> <<adaptyFields(event)[i]>>,
         Timestamp |-> ts,
         Footer |-> "Adapty Subscription Management"]]]

adaptyToDiscord(event, ts) ==
  [k |-> "msg",
   Username |-> "Adapty",
   AvatarURL |-> AdaptyAvatar,
   Embeds |->
     <<[Title |-> <<Lit("Adapty: ")>> \o StrictFormatEventType(event.EventType),
        Description |-> createEventDescription(event),
        URL |-> "",
        Color |-> StrictColorOf(event.EventType),
        Fields |-> adaptyFields(event),
        Timestamp |-> ts,
        Footer |-> "Adapty Subscription Management"]>>]

(***************************************************************************)
(* The dispatcher: processPayload of both variants                         *)
(***************************************************************************)
Ok(m, ran) == [err |-> "none", msg |-> m, tried |-> ran]
Fail(e, ran) == [err |-> e, msg |-> NoMsg, tried |-> ran]

\* json.Unmarshal(body, &m) for m a map[string]interface{}: an error unless
\* the body is a JSON object or null.
MapDecodeErr(body) == body.t \notin {"obj", "null"}

\* gcpErr == nil && gcpNotification.Incident.IncidentID != ""
IsGcp(body) ==
  ~DecodeNotification(body).err /\ DecodeNotification(body).Incident.IncidentID # ""

\* adaptyErr == nil && (adaptyEvent.Event != "" || adaptyEvent.EventType != "")
IsStrictAdapty(body) ==
  /\ ~DecodeAdaptyEvent(body).err
  /\ (DecodeAdaptyEvent(body).Event # "" \/ DecodeAdaptyEvent(body).EventType # "")

\* The embed processPayload builds itself for a payload with a string `event`.
partialAdaptyEvent(event, ts) ==
  [k |-> "msg",
   Username |-> "Adapty",
   AvatarURL |-> AdaptyAvatar,
   Embeds |->
     <<[Title |-> <<Lit("Adapty: "), Lit(event)>>,
        Description |-> <<Lit("Received event: "), Lit(event)>>,
        URL |-> "",
        Color |-> ColorGray,
        Fields |-> <<>>,
        Timestamp |-> ts,
        Footer |-> "Adapty Subscription Management"]>>]

MapProcessPayloadAdaptyFirst(body, ts) ==
  IF MapDecodeErr(body) THEN Fail("malformed", <<>>)
  ELSE IF MapGet(body, "event_type").t # "absent"
  THEN Ok(adaptyMapToDiscord(body, ts), <<"adapty">>)
  ELSE IF IsGcp(body) THEN Ok(gcpToDiscord(DecodeNotification(body), ts), <<"adapty", "gcp">>)
  ELSE Ok(adaptyMapToDiscord(body, ts), <<"adapty", "gcp">>)

MapProcessPayloadArrayUnrecognized(body, ts) ==
  IF body.t = "nonjson" THEN Fail("malformed", <<>>)
  ELSE IF IsGcp(body) THEN Ok(gcpToDiscord(DecodeNotification(body), ts), <<"gcp">>)
  ELSE IF ~MapDecodeErr(body) THEN Ok(adaptyMapToDiscord(body, ts), <<"gcp", "adapty">>)
  ELSE Fail("unrecognized", <<"gcp", "adapty">>)

\* processPayload of the map-form variant.
MapProcessPayload(body, ts) ==
  IF MapDecodeErr(body) THEN Fail("malformed", <<>>)
  ELSE IF IsGcp(body) THEN Ok(gcpToDiscord(DecodeNotification(body), ts), <<"gcp">>)
  ELSE IF ~MapDecodeErr(body) THEN Ok(adaptyMapToDiscord(body, ts), <<"gcp", "adapty">>)
  ELSE IF IsStr(MapGet(body, "event"))
  THEN Ok(partialAdaptyEvent(MapGet(body, "event").v, ts), <<"gcp", "adapty", "event">>)
  ELSE Fail("unrecognized", <<"gcp", "adapty", "event">>)

\* processPayload of the strict-form variant.
StrictProcessPayload(body, ts) ==
  IF IsGcp(body) THEN Ok(gcpToDiscord(DecodeNotification(body), ts), <<"gcp">>)
  ELSE IF IsStrictAdapty(body)
  THEN Ok(adaptyToDiscord(DecodeAdaptyEvent(body), ts), <<"gcp", "adapty">>)
  ELSE IF DecodeNotification(body).err /\ DecodeAdaptyEvent(body).err
  THEN Fail("malformed", <<"gcp", "adapty">>)
  ELSE Fail("unrecognized", <<"gcp", "adapty">>)

processPayload(v, body, ts) ==
  IF v = "map" THEN MapProcessPayload(body, ts) ELSE StrictProcessPayload(body, ts)

(***************************************************************************)
(* The entry point F, one action per step                                  *)
(***************************************************************************)
NoResp == [k |-> "none"]
Text(s) == [k |-> "text", s |-> s]
\* fmt.Sprintf(`{"adapty_check_response": "%s"}`, checkString)
CheckResponse(s) == [k |-> "json", adapty_check_response |-> s]
\* `{"status":"ok","message":"Webhook verification successful"}`
MountAck == [k |-> "json", status |-> "ok", message |-> "Webhook verification successful"]

Finish(code, body) ==
  /\ pc' = "done"
  /\ status' = code
  /\ resp' = body

\* os.Getenv of the two webhook URLs; log.Fatalln ends the process when one
\* is not set.
CheckEnv ==
  /\ pc = "start"
  /\ pc' = IF env.gcpUrl = "" \/ env.adaptyUrl = "" THEN "fatal" ELSE "method"
  /\ UNCHANGED <<variant, env, req, bodyRead, status, resp, perr, tried, msg, target, posts, outcome, now>>

CheckRequestMethodOnly ==
  /\ pc = "method"
  /\ IF req.method # "POST"
     THEN Finish(400, Text("invalid request"))
     ELSE pc' = "auth" /\ UNCHANGED <<status, resp>>
  /\ UNCHANGED <<variant, env, req, bodyRead, perr, tried, msg, target, posts, outcome, now>>

\* r.Method != "POST" || contentType != "application/json"
CheckRequest ==
  /\ pc = "method"
  /\ IF req.method # "POST" \/ req.ctype # "application/json"
     THEN Finish(400, Text("invalid request"))
     ELSE pc' = "auth" /\ UNCHANGED <<status, resp>>
  /\ UNCHANGED <<variant, env, req, bodyRead, perr, tried, msg, target, posts, outcome, now>>

IsAuthenticatedEmptyMatches ==
  \/ req.authHeader = env.adaptyToken
  \/ req.authQuery = env.gcpToken

IsAuthenticated ==
  \/ env.adaptyToken # "" /\ req.authHeader = env.adaptyToken
  \/ env.gcpToken # "" /\ req.authQuery = env.gcpToken

Authenticate ==
  /\ pc = "auth"
  /\ IF ~IsAuthenticated
     THEN Finish(401, Text("unauthorized"))
     ELSE pc' = "read" /\ UNCHANGED <<status, resp>>
  /\ UNCHANGED <<variant, env, req, bodyRead, perr, tried, msg, target, posts, outcome, now>>

\* io.ReadAll(r.Body): the transport may fail to deliver the body.
ReadBody ==
  /\ pc = "read"
  /\ \E ok \in BOOLEAN :
       IF ok
       THEN /\ bodyRead' = TRUE
            /\ pc' = IF variant = "map" THEN "probe" ELSE "process"
            /\ UNCHANGED <<status, resp>>
       ELSE /\ Finish(400, Text("could not read request body"))
            /\ UNCHANGED bodyRead
  /\ UNCHANGED <<variant, env, req, perr, tried, msg, target, posts, outcome, now>>

\* The three verification probes of the map-form F, in the order F tests
\* them; NoResp when the body is none of them.
ProbeResponseMountFirst(body) ==
  IF MapDecodeErr(body) THEN NoResp
  ELSE IF IsStr(MapGet(body, "event")) /\ MapGet(body, "event").v = "isMount" THEN MountAck
  ELSE IF IsStr(MapGet(body, "adapty_check"))
  THEN CheckResponse(MapGet(body, "adapty_check").v)
  ELSE NoResp

ProbeResponseTopLevelOnly(body) ==
  IF MapDecodeErr(body) THEN NoResp
  ELSE IF IsStr(MapGet(body, "adapty_check"))
  THEN CheckResponse(MapGet(body, "adapty_check").v)
  ELSE IF IsStr(MapGet(body, "event")) /\ MapGet(body, "event").v = "isMount" THEN MountAck
  ELSE NoResp

ProbeResponse(body) ==
  IF MapDecodeErr(body) THEN NoResp
  ELSE IF IsStr(MapGet(body, "adapty_check"))
  THEN CheckResponse(MapGet(body, "adapty_check").v)
  ELSE IF IsStr(MapGet(body, "event")) /\ MapGet(body, "event").v = "isMount" THEN MountAck
  ELSE IF /\ MapGet(body, "data").t = "obj"
          /\ IsStr(MapGet(body, "data").v.event)
          /\ MapGet(body, "data").v.event.v = "isMount"
  THEN MountAck
  ELSE NoResp

\* Special handling for Adapty verification tests (map-form F only).
VerifyProbe ==
  /\ pc = "probe"
  /\ IF ProbeResponse(req.body) # NoResp
     THEN Finish(200, ProbeResponse(req.body))
     ELSE pc' = "process" /\ UNCHANGED <<status, resp>>
  /\ UNCHANGED <<variant, env, req, bodyRead, perr, tried, msg, target, posts, outcome, now>>

ProcessFailsWith500 ==
  /\ pc = "process"
  /\ LET r == processPayload(variant, req.body, now)
     IN /\ perr' = r.err
        /\ tried' = r.tried
        /\ msg' = r.msg
        /\ IF r.err # "none"
           THEN Finish(500, NoResp)
           ELSE pc' = "select" /\ UNCHANGED <<status, resp>>
  /\ UNCHANGED <<variant, env, req, bodyRead, target, posts, outcome, now>>

\* discordWebhook, err := processPayload(bodyBytes)
Process ==
  /\ pc = "process"
  /\ LET r == processPayload(variant, req.body, now)
     IN /\ perr' = r.err
        /\ tried' = r.tried
        /\ msg' = r.msg
        /\ IF r.err # "none"
           THEN Finish(400, Text("invalid payload format"))
           ELSE pc' = "select" /\ UNCHANGED <<status, resp>>
  /\ UNCHANGED <<variant, env, req, bodyRead, target, posts, outcome, now>>

SelectTargetAlwaysAdapty ==
  /\ pc = "select"
  /\ target' = env.adaptyUrl
  /\ pc' = "deliver"
  /\ UNCHANGED <<variant, env, req, bodyRead, status, resp, perr, tried, msg, posts, outcome, now>>

\* Choose the webhook URL by discordWebhook.Username; target is
\* discordWebhookURL.
SelectTarget ==
  /\ pc = "select"
  /\ IF msg.Username = "GCP Monitoring"
     THEN target' = env.gcpUrl /\ pc' = "deliver" /\ UNCHANGED <<status, resp>>
     ELSE IF msg.Username = "Adapty"
     THEN target' = env.adaptyUrl /\ pc' = "deliver" /\ UNCHANGED <<status, resp>>
     ELSE Finish(500, NoResp) /\ UNCHANGED target
  /\ UNCHANGED <<variant, env, req, bodyRead, perr, tried, msg, posts, outcome, now>>

DeliverIgnoresStatus ==
  /\ pc = "deliver"
  /\ posts' = posts + 1
  /\ \E res \in {"error", "non2xx", "2xx"} :
       /\ outcome' = res
       /\ IF res = "error" THEN Finish(500, NoResp) ELSE Finish(200, msg)
  /\ UNCHANGED <<variant, env, req, bodyRead, perr, tried, msg, target, now>>

DeliverRetrying ==
  /\ pc = "deliver"
  /\ posts' = posts + 1
  /\ \E res \in {"error", "non2xx", "2xx"} :
       /\ outcome' = res
       /\ IF res = "2xx" THEN Finish(200, msg)
          ELSE IF posts < 2 THEN UNCHANGED <<pc, status, resp>>
          ELSE Finish(500, NoResp)
  /\ UNCHANGED <<variant, env, req, bodyRead, perr, tried, msg, target, now>>

\* json.Marshal of a DiscordWebhook (strings, integers and booleans) does not
\* fail.  http.Post to the chosen webhook: a transport error, a status
\* outside 2xx, or a 2xx status; then the response to the caller.
Deliver ==
  /\ pc = "deliver"
  /\ posts' = posts + 1
  /\ \E res \in {"error", "non2xx", "2xx"} :
       /\ outcome' = res
       /\ IF res = "2xx" THEN Finish(200, msg) ELSE Finish(500, NoResp)
  /\ UNCHANGED <<variant, env, req, bodyRead, perr, tried, msg, target, now>>

Next ==
  \/ CheckEnv
  \/ CheckRequest
  \/ Authenticate
  \/ ReadBody
  \/ VerifyProbe
  \/ Process
  \/ SelectTarget
  \/ Deliver

(***************************************************************************)
(* Requests                                                                *)
(***************************************************************************)
MaxNow == 1

TopKeys ==
  {"incident", "version", "event", "event_type", "timestamp", "data", "adapty_check",
   "customer_user_id", "email", "profile_id", "event_properties", "foo"}

NoTop == [k \in TopKeys |-> Absent]

NonJson == [t |-> "nonjson"]

EnvOf(a, g, u) == [adaptyToken |-> a, gcpToken |-> g, gcpUrl |-> u, adaptyUrl |-> "https://discord/adapty"]

\* Every combination of configured tokens, received credentials, method and
\* content type the entry point tells apart.
ReqConfigs ==
  {[env |-> e, method |-> m[1], ctype |-> m[2], authHeader |-> h, authQuery |-> q] :
     e \in {EnvOf("tokA", "tokG", "https://discord/gcp"), EnvOf("", "", "https://discord/gcp"),
            EnvOf("tokA", "", "https://discord/gcp"), EnvOf("", "tokG", "https://discord/gcp"),
            EnvOf("tokA", "tokG", "")},
     m \in {<<"POST", "application/json">>, <<"GET", "application/json">>,
            <<"POST", "text/plain">>},
     h \in {"", "tokA", "bad"},
     q \in {"", "tokG"}}

\* A few configurations: two authenticated ones and one of each rejection.
SmallConfigs ==
  {[env |-> EnvOf("tokA", "tokG", "https://discord/gcp"), method |-> "POST",
    ctype |-> "application/json", authHeader |-> "tokA", authQuery |-> ""],
   [env |-> EnvOf("tokA", "tokG", "https://discord/gcp"), method |-> "POST",
    ctype |-> "application/json", authHeader |-> "", authQuery |-> "bad"],
   [env |-> EnvOf("tokA", "tokG", "https://discord/gcp"), method |-> "GET",
    ctype |-> "application/json", authHeader |-> "tokA", authQuery |-> ""],
   [env |-> EnvOf("tokA", "tokG", ""), method |-> "POST",
    ctype |-> "application/json", authHeader |-> "tokA", authQuery |-> ""]}

IncidentOf(id, st) ==
  Obj([NoIncident EXCEPT !.incident_id = id, !.state = st,
                         !.scoping_project_id = Str("proj"), !.policy_name = Str("cpu")])

\* Bodies for the classification pipeline: what is not an object, and the
\* objects over the keys the probes and the matchers look at.
CoreBodies ==
  {NonJson, Arr, Str("hello"), Num(42), Bool(TRUE), Null,
   Obj([NoTop EXCEPT !.foo = Str("bar")])}
  \cup
  {Obj([NoTop EXCEPT !.adapty_check = c, !.event = e, !.event_type = et,
                     !.data = d, !.incident = i]) :
     c \in {Absent, Str("xyz123"), Num(1)},
     e \in {Absent, Str("isMount"), Str("custom_event"), Num(1)},
     et \in {Absent, Str("subscription_started"), Str("custom_event")},
     d \in {Absent, Obj([NoData EXCEPT !.event = Str("isMount")]),
            Obj([NoData EXCEPT !.event = Str("custom_event")]), Str("x")},
     i \in {Absent, IncidentOf(Str("inc-1"), Str("open")), IncidentOf(Str(""), Str("open")),
            IncidentOf(Num(7), Str("closed")), Str("x")}}

InitWith(configs, bodies) ==
  /\ variant \in {"map", "strict"}
  /\ \E c \in configs, b \in bodies :
       /\ env = c.env
       /\ req = [method |-> c.method, ctype |-> c.ctype, authHeader |-> c.authHeader,
                 authQuery |-> c.authQuery, body |-> b]
  /\ now \in 1..MaxNow
  /\ pc = "start"
  /\ bodyRead = FALSE
  /\ status = 0
  /\ resp = NoResp
  /\ perr = "none"
  /\ tried = <<>>
  /\ msg = NoMsg
  /\ target = ""
  /\ posts = 0
  /\ outcome = "none"

Init == InitWith(ReqConfigs, CoreBodies)

Spec == Init /\ [][Next]_vars

\* Monitoring incidents with every combination of present, empty and absent
\* fields the renderer tells apart, alone or with a subscription event_type.
GcpBodies ==
  {Obj([NoTop EXCEPT
          !.event_type = et,
          !.incident = Obj([NoIncident EXCEPT
                              !.incident_id = Str("inc-1"),
                              !.scoping_project_id = pr,
                              !.project_id = pi,
                              !.policy_name = po,
                              !.condition_name = co,
                              !.state = st,
                              !.started_at = sa,
                              !.ended_at = ea])]) :
     et \in {Absent, Str("subscription_started")},
     pr \in {Absent, Str(""), Str("proj")},
     pi \in {Absent, Str("legacy")},
     po \in {Absent, Str(""), Str("cpu")},
     co \in {Absent, Null, Str("high")},
     st \in {Absent, Str("open"), Str("closed"), Str("OPEN")},
     sa \in {Absent, Num(0), Num(-5), Num(1700000000)},
     ea \in {Absent, Num(0), Num(1700003600), Num(1700000030)}}

InitGcp == InitWith(SmallConfigs, GcpBodies)

SpecGcp == InitGcp /\ [][Next]_vars

EventTypes == DOMAIN MapColors \cup DOMAIN StrictColors \cup {"custom_event", "", "a__b", "_x"}

\* Subscription events of every event type, with the properties the
\* description is chosen from.
AdaptyBodies ==
  {Obj([NoTop EXCEPT !.event_type = et, !.event_properties = ep]) :
     et \in {Absent, Num(3)} \cup {Str(x) : x \in EventTypes},
     ep \in {Absent}
            \cup {Obj([NoProps EXCEPT !.vendor_product_id = vp, !.price_usd = pu,
                                      !.access_level = al]) :
                    vp \in {Absent, Str(""), Str("premium")},
                    pu \in {Absent, Num(9), Frac(999)},
                    al \in {Absent, Str("gold")}}}

InitAdapty == InitWith(SmallConfigs, AdaptyBodies)

SpecAdapty == InitAdapty /\ [][Next]_vars

\* The keys adaptyMapToDiscord reads a field from: three at top level and
\* those of event_properties.
MapTopFieldKeys == {"customer_user_id", "email", "profile_id"}

MapFieldKeys == MapTopFieldKeys \cup PropsKeys

MapBoolKeys == {"profile_has_access_level", "will_renew"}
MapNumKeys == {"price_usd", "proceeds_usd"}
MapDateKeys ==
  {"purchase_date", "subscription_expires_at", "pause_start_date", "auto_resume_date",
   "deferred_expiration_date"}

\* A value of the JSON type the renderer asserts for the key.
GoodValue(key) ==
  IF key \in MapBoolKeys THEN Bool(TRUE)
  ELSE IF key = "price_usd" THEN Frac(999)
  ELSE IF key = "proceeds_usd" THEN Frac(699)
  ELSE IF key \in MapDateKeys THEN Str(DateMicro)
  ELSE Str("x")

\* What a key holds when it does not hold a good value: nothing, null, the
\* zero value of its type, or a value of another JSON type.
Fillers == {"absent", "null", "empty", "mistyped"}

FillerValue(f, key) ==
  IF f = "absent" THEN Absent
  ELSE IF f = "null" THEN Null
  ELSE IF f = "empty"
  THEN (IF key \in MapBoolKeys THEN Bool(FALSE)
        ELSE IF key \in MapNumKeys THEN Num(0) ELSE Str(""))
  ELSE (IF key \in MapBoolKeys THEN Str("yes")
        ELSE IF key \in MapNumKeys THEN Str("9.99") ELSE Num(5))

\* The sets of keys that hold a good value: none, one, two, all but two, all
\* but one, or all of them.
PresentSets ==
  {{}} \cup {{a, b} : a \in MapFieldKeys, b \in MapFieldKeys}
  \cup {MapFieldKeys \ {a, b} : a \in MapFieldKeys, b \in MapFieldKeys}
  \cup {MapFieldKeys}

MapFieldBody(present, f) ==
  LET V(key) == IF key \in present THEN GoodValue(key) ELSE FillerValue(f, key)
  IN Obj([NoTop EXCEPT
            !.event_type = Str("subscription_started"),
            !.customer_user_id = V("customer_user_id"),
            !.email = V("email"),
            !.profile_id = V("profile_id"),
            !.event_properties = Obj([k \in PropsKeys |-> V(k)])])

FullSubscription ==
  [NoSubscription EXCEPT !.id = Str("s1"), !.status = Str("active"), !.store = Str("app_store"),
                         !.product_id = Str("premium"), !.started_at = Num(1700000000),
                         !.expires_at = Num(1700003600), !.is_sandbox = Bool(TRUE)]

FullTransaction ==
  [NoTransaction EXCEPT !.id = Str("t1"), !.product_id = Str("premium"), !.value = Frac(999),
                        !.currency = Str("USD"), !.is_sandbox = Bool(TRUE),
                        !.is_restored = Bool(TRUE)]

\* Events in the shape of AdaptyEvent: data with and without its nested
\* subscription and transaction, each full, partial or empty.
StrictFieldBodies ==
  {Obj([NoTop EXCEPT !.event_type = Str("subscription_renewed"), !.data = d]) :
     d \in {Null, Obj(NoData)}
           \cup {Obj([NoData EXCEPT !.profile_id = pid, !.customer_user_id = cu,
                                    !.subscription = sub, !.transaction = txn]) :
                   pid \in {Absent, Str(""), Str("p1")},
                   cu \in {Absent, Str("u1")},
                   sub \in {Absent, Null, Obj(NoSubscription), Obj(FullSubscription),
                            Obj([FullSubscription EXCEPT !.product_id = Str(""),
                                                         !.is_sandbox = Absent,
                                                         !.started_at = Num(0)])},
                   txn \in {Absent, Obj(NoTransaction), Obj(FullTransaction),
                            Obj([NoTransaction EXCEPT !.product_id = Str("premium"),
                                                      !.value = Num(0)])}}}

\* Subscription events of both shapes with every field present, empty,
\* absent, null or mistyped, alone and in pairs.
FieldBodies ==
  {MapFieldBody(p, f) : p \in PresentSets, f \in Fillers}
  \cup {Obj([NoTop EXCEPT !.event_type = Str("subscription_started"),
                          !.event_properties = ep]) : ep \in {Absent, Null, Str("x")}}
  \cup StrictFieldBodies

InitFields == InitWith(SmallConfigs, FieldBodies)

SpecFields == InitFields /\ [][Next]_vars

IncidentGoodValue(key) ==
  IF key = "started_at" THEN Num(1700000000)
  ELSE IF key = "ended_at" THEN Num(1700003600)
  ELSE IF key = "state" THEN Str("open")
  ELSE Str("x")

\* Monitoring incidents with an incident_id and every subset of the other
\* fields of Incident.
IncidentSubsetBodies ==
  {Obj([NoTop EXCEPT
          !.version = ver,
          !.incident = Obj([k \in IncidentWireKeys |->
                              IF k = "incident_id" THEN Str("inc-1")
                              ELSE IF k \in present THEN IncidentGoodValue(k)
                              ELSE Absent])]) :
     present \in SUBSET (IncidentKeys \ {"incident_id"}),
     ver \in {Absent, Str("1.2")}}

InitOptional == InitWith(SmallConfigs, IncidentSubsetBodies \cup FieldBodies)

SpecOptional == InitOptional /\ [][Next]_vars

\* All the bodies above: those that fail, monitoring incidents and
\* subscription events of both shapes.
InitAll == InitWith(SmallConfigs, CoreBodies \cup IncidentSubsetBodies \cup FieldBodies)

SpecAll == InitAll /\ [][Next]_vars

(***************************************************************************)
(* Claims                                                                  *)
(***************************************************************************)
\* processPayload has run on the request's body.
Processed == perr # "none" \/ msg # NoMsg

Rendered == msg # NoMsg

Embed == msg.Embeds[1]

TopOf(key) == IF req.body.t = "obj" THEN req.body.v[key] ELSE Absent

IncidentOfBody(key) ==
  IF TopOf("incident").t = "obj" THEN TopOf("incident").v[key] ELSE Absent

\* The body is a JSON object whose incident object decodes into Incident and
\* carries a non-empty incident_id.
WellTypedIncident ==
  /\ req.body.t = "obj"
  /\ TopOf("incident").t = "obj"
  /\ TopOf("version").t \in {"absent", "null", "str"}
  /\ \A k \in IncidentKeys :
       IncidentOfBody(k).t \in
         {"absent", "null", IF k \in {"started_at", "ended_at"} THEN "num" ELSE "str"}
  /\ IncidentOfBody("incident_id").t = "str"
  /\ IncidentOfBody("incident_id").v # ""

Missing(v) == v.t \in {"absent", "null"} \/ v = Str("")

\* C1: a valid JSON object with no non-empty incident_id (its incident absent
\* or an object), no event and no event_type is answered by processPayload
\* with the UnrecognizedPayload error and no message, so F answers 400 and
\* makes no outbound delivery.
C1_UnrecognizedObjectRejected ==
  (/\ Processed
   /\ req.body.t = "obj"
   /\ TopOf("incident").t \in {"absent", "obj"}
   /\ Missing(IncidentOfBody("incident_id"))
   /\ TopOf("event").t = "absent"
   /\ TopOf("event_type").t = "absent")
  => /\ perr = "unrecognized"
     /\ msg = NoMsg
     /\ posts = 0
     /\ pc = "done"
     /\ status = 400

\* C2: a payload that decodes as a monitoring notification with a non-empty
\* incident_id is rendered by gcpToDiscord (sender "GCP Monitoring"), also
\* when it carries event or event_type keys.
C2_IncidentMatcherFirst ==
  (Processed /\ WellTypedIncident)
  => /\ perr = "none"
     /\ Rendered
     /\ msg.Username = "GCP Monitoring"
     /\ tried = <<"gcp">>
     /\ FieldValue(Embed.Fields, "Incident ID") = <<Lit(IncidentOfBody("incident_id").v)>>

C2_Witness ==
  /\ Processed
  /\ WellTypedIncident
  /\ TopOf("event_type") = Str("subscription_started")
  /\ TopOf("event") = Str("custom_event")
  /\ msg.Username = "GCP Monitoring"

HasCheck == IsStr(TopOf("adapty_check"))

\* What the probe answer of F leaves behind: no classification, no delivery.
Unclassified == perr = "none" /\ msg = NoMsg /\ tried = <<>> /\ target = "" /\ posts = 0

AnsweredCheck ==
  /\ Unclassified
  /\ pc = "done" => /\ status = 200
                    /\ resp = [k |-> "json", adapty_check_response |-> TopOf("adapty_check").v]

\* C3 as stated: for every authenticated request whose body has a string
\* adapty_check, F answers {"adapty_check_response": s} and stops, with no
\* classification and no delivery.
C3_Original == (bodyRead /\ HasCheck) => AnsweredCheck

\* C3, amended: the same, for the map-form F; the strict-form F has no
\* verification responder.
C3_CheckProbeAnswered == (variant = "map" /\ bodyRead /\ HasCheck) => AnsweredCheck

C3_Witness ==
  /\ variant = "map"
  /\ pc = "done"
  /\ WellTypedIncident
  /\ TopOf("event_type") = Str("subscription_started")
  /\ TopOf("event") = Str("isMount")
  /\ resp = [k |-> "json", adapty_check_response |-> "xyz123"]
  /\ posts = 0

\* event is "isMount" at top level or under a top-level data object.
IsMount ==
  \/ TopOf("event") = Str("isMount")
  \/ TopOf("data").t = "obj" /\ TopOf("data").v.event = Str("isMount")

AnsweredMount ==
  /\ Unclassified
  /\ pc = "done" => /\ status = 200
                    /\ resp = [k |-> "json", status |-> "ok",
                               message |-> "Webhook verification successful"]

\* C4 as stated: for every authenticated request whose body has event
\* "isMount" at top level or under data, F answers the fixed acknowledgement
\* and stops, with no classification and no delivery.
C4_Original == (bodyRead /\ IsMount) => AnsweredMount

\* C4, amended: the same, for the map-form F and a body without a string
\* adapty_check (which F answers first).
C4_MountProbeAnswered == (variant = "map" /\ bodyRead /\ IsMount /\ ~HasCheck) => AnsweredMount

C4_Witness ==
  /\ variant = "map"
  /\ pc = "done"
  /\ TopOf("event").t = "absent"
  /\ TopOf("data").t = "obj"
  /\ WellTypedIncident
  /\ resp = MountAck
  /\ posts = 0

\* C5 as stated: processPayload returns MalformedPayload exactly when the
\* body is not valid JSON, and then before any matcher runs.
C5_Original ==
  Processed => /\ perr = "malformed" <=> req.body.t = "nonjson"
               /\ req.body.t = "nonjson" => tried = <<>>

\* C5, amended: processPayload returns MalformedPayload for every body that
\* is not valid JSON and also for valid JSON that is neither an object nor
\* null; in the map form for no other body, and before any matcher runs; in
\* the strict form only after both matchers ran.
C5_MalformedForNonObjects ==
  Processed =>
    /\ req.body.t \in {"nonjson", "arr", "str", "num", "frac", "bool"} => perr = "malformed"
    /\ variant = "map" =>
         /\ perr = "malformed" => req.body.t \notin {"obj", "null"}
         /\ perr = "malformed" => tried = <<>>
    /\ variant = "strict" /\ perr = "malformed" => tried = <<"gcp", "adapty">>

C5_Witness ==
  /\ Processed
  /\ variant = "map"
  /\ req.body.t = "arr"
  /\ perr = "malformed"
  /\ status = 400

GcpRendered == Rendered /\ msg.Username = "GCP Monitoring"

\* C6: a rendered monitoring incident has the open color 16007725 and a
\* title with "opened" when state is "open", and the closed color 1619771
\* and a title with "closed" for every other or absent state.
C6_ColorAndTitleByState ==
  GcpRendered =>
    IF IncidentOfBody("state") = Str("open")
    THEN /\ Embed.Color = 16007725
         /\ Contains(Embed.Title, Lit("opened"))
         /\ ~Contains(Embed.Title, Lit("closed"))
    ELSE /\ Embed.Color = 1619771
         /\ Contains(Embed.Title, Lit("closed"))
         /\ ~Contains(Embed.Title, Lit("opened"))

C6_Witness ==
  /\ GcpRendered
  /\ IncidentOfBody("state") = Str("OPEN")
  /\ Embed.Color = 1619771
  /\ Contains(Embed.Title, Lit("closed"))

\* C7 as stated: when project_id, policy_name or condition_name of a
\* monitoring-incident payload is missing or empty, the Project ID field, the
\* policy part of the title and the Condition field are exactly "-", and
\* rendering succeeds.
C7_Original ==
  (Processed /\ WellTypedIncident) =>
    /\ perr = "none"
    /\ GcpRendered
    /\ Missing(IncidentOfBody("project_id"))
         => FieldValue(Embed.Fields, "Project ID") = <<Lit("-")>>
    /\ Missing(IncidentOfBody("policy_name")) => Embed.Title[6] = Lit("-")
    /\ Missing(IncidentOfBody("condition_name"))
         => FieldValue(Embed.Fields, "Condition") = <<Lit("-")>>

\* C7, amended: the same with scoping_project_id, the key the project id is
\* decoded from, in the place of project_id, which is not read: the Project
\* ID field and the project part of the title are "-" when scoping_project_id
\* is missing or empty and its value otherwise, whatever project_id holds.
C7_PlaceholderForMissing ==
  (Processed /\ WellTypedIncident) =>
    /\ perr = "none"
    /\ GcpRendered
    /\ FieldValue(Embed.Fields, "Project ID")
         = <<Lit(IF Missing(IncidentOfBody("scoping_project_id")) THEN "-"
                 ELSE IncidentOfBody("scoping_project_id").v)>>
    /\ Embed.Title[2] = FieldValue(Embed.Fields, "Project ID")[1]
    /\ Missing(IncidentOfBody("policy_name")) => Embed.Title[6] = Lit("-")
    /\ Missing(IncidentOfBody("condition_name"))
         => FieldValue(Embed.Fields, "Condition") = <<Lit("-")>>
    /\ ~Missing(IncidentOfBody("policy_name"))
         => Embed.Title[6] = Lit(IncidentOfBody("policy_name").v)

C7_Witness ==
  /\ GcpRendered
  /\ IncidentOfBody("scoping_project_id").t = "absent"
  /\ IncidentOfBody("project_id") = Str("legacy")
  /\ IncidentOfBody("policy_name") = Str("")
  /\ IncidentOfBody("condition_name").t = "null"
  /\ Embed.Title[6] = Lit("-")
  /\ FieldValue(Embed.Fields, "Project ID") = <<Lit("-")>>

StartedPresent == IntOf(IncidentOfBody("started_at")) > 0
EndedPresent == IntOf(IncidentOfBody("ended_at")) > 0

\* C8: "Started at" is in the embed iff started_at > 0; "Ended at" iff both
\* started_at and ended_at are > 0, and then it comes directly after
\* "Started at" and holds the absolute end time and a relative phrase (for
\* 1700000000 and 1700003600, "1 hour").
C8_StartedAndEndedFields ==
  GcpRendered =>
    /\ HasField(Embed.Fields, "Started at") <=> StartedPresent
    /\ HasField(Embed.Fields, "Ended at") <=> (StartedPresent /\ EndedPresent)
    /\ HasField(Embed.Fields, "Started at")
         => FieldValue(Embed.Fields, "Started at")
              = <<Rfc3339(IncidentOfBody("started_at").v)>>
    /\ HasField(Embed.Fields, "Ended at")
         => /\ FieldIndex(Embed.Fields, "Ended at")
                 = FieldIndex(Embed.Fields, "Started at") + 1
            /\ FieldIndex(Embed.Fields, "Ended at") = Len(Embed.Fields)
            /\ LET val == FieldValue(Embed.Fields, "Ended at")
               IN /\ Len(val) >= 4
                  /\ val[1] = Rfc3339(IncidentOfBody("ended_at").v)
                  /\ val[2] = Lit(" (")
                  /\ val[Len(val)] = Lit(")")
    /\ (IncidentOfBody("started_at") = Num(1700000000)
        /\ IncidentOfBody("ended_at") = Num(1700003600))
         => FieldValue(Embed.Fields, "Ended at")
              = <<Rfc3339(1700003600), Lit(" ("), Lit("1 hour"), Lit(")")>>

C8_Witness ==
  /\ GcpRendered
  /\ IncidentOfBody("started_at") = Num(1700000000)
  /\ IncidentOfBody("ended_at") = Num(1700003600)
  /\ HasField(Embed.Fields, "Ended at")
  /\ Len(Embed.Fields) = 5

AdaptyRendered == Rendered /\ msg.Username = "Adapty"

\* C9: a rendered subscription event whose event_type is a key of the
\* variant's palette has that palette entry as its color; every other event
\* (unknown, absent or non-string event_type) has the gray 7506394.
C9_ColorFromPalette ==
  AdaptyRendered =>
    LET et == StrOf(TopOf("event_type"))
        palette == IF variant = "map" THEN MapColors ELSE StrictColors
    IN IF IsStr(TopOf("event_type")) /\ et \in DOMAIN palette
       THEN Embed.Color = palette[et]
       ELSE Embed.Color = 7506394

C9_Witness ==
  /\ AdaptyRendered
  /\ variant = "map"
  /\ TopOf("event_type") = Str("trial_started")
  /\ Embed.Color = 10181046

\* The sentences C10 names, for the event type and properties of the body.
PropOf(key) ==
  IF TopOf("event_properties").t = "obj" THEN TopOf("event_properties").v[key] ELSE Absent

C10_Expected ==
  LET et == StrOf(TopOf("event_type"))
      product == StrOf(PropOf("vendor_product_id"))
  IN IF product # "" /\ et \in DOMAIN MapProductSentence
     THEN <<Lit(MapProductSentence[et][1]), Lit(product), Lit(MapProductSentence[et][2])>>
     ELSE IF PropOf("price_usd").t \in {"num", "frac"} /\ et \in DOMAIN MapPriceSentence
     THEN <<Lit(MapPriceSentence[et][1]), Usd(CentsOf(PropOf("price_usd"))),
            Lit(MapPriceSentence[et][2])>>
     ELSE IF et = "access_level_updated" /\ StrOf(PropOf("access_level")) # ""
     THEN <<Lit("User access level has been updated to **"),
            Lit(StrOf(PropOf("access_level"))), Lit("**.")>>
     ELSE IF et \in DOMAIN MapGenericSentence THEN <<Lit(MapGenericSentence[et])>>
     ELSE <<Lit("Received event: "), Lit(et)>>

\* C10: the description of a subscription event (map form) is the product
\* sentence when a product identifier is present and the type is known, else
\* the price sentence for a price-aware type with a price, else the
\* access-level sentence, and the generic sentence only when none applies.
C10_DescriptionByPriority ==
  (AdaptyRendered /\ variant = "map") => Embed.Description = C10_Expected

\* The names of the fields of adaptyMapToDiscord in the order C12 gives, and
\* the key each is read from.
FieldOrder ==
  <<"User", "Email", "Profile ID", "Transaction ID", "Product", "Base Plan", "Store",
    "Environment", "Revenue (USD)", "Has Access", "Will Renew", "Purchase Date",
    "Expires At", "Pause Start Date", "Auto Resume Date", "Deferred Expiration",
    "Cancellation Reason", "Billing Error", "Access Level", "Paywall", "A/B Test">>

FieldKeyOrder ==
  <<"customer_user_id", "email", "profile_id", "transaction_id", "vendor_product_id",
    "base_plan_id", "store", "environment", "price_usd", "profile_has_access_level",
    "will_renew", "purchase_date", "subscription_expires_at", "pause_start_date",
    "auto_resume_date", "deferred_expiration_date", "cancellation_reason", "billing_error",
    "access_level", "paywall_name", "ab_test_name">>

Position(name) == CHOOSE i \in 1..Len(FieldOrder) : FieldOrder[i] = name

InOrder(name) == \E i \in 1..Len(FieldOrder) : FieldOrder[i] = name

DataOf(key) == IF TopOf("data").t = "obj" THEN TopOf("data").v[key] ELSE Absent
SubscriptionOf(key) ==
  IF DataOf("subscription").t = "obj" THEN DataOf("subscription").v[key] ELSE Absent
TransactionOf(key) ==
  IF DataOf("transaction").t = "obj" THEN DataOf("transaction").v[key] ELSE Absent

\* A source value that is present and non-empty (non-zero for a number).
Present(v) ==
  /\ v.t \notin {"absent", "null"}
  /\ v \notin {Str(""), Num(0), Frac(0)}

\* The value of the request body a field of the given name is rendered from.
SourceOf(name) ==
  IF variant = "map"
  THEN (IF ~InOrder(name) THEN Absent
        ELSE IF Position(name) <= 3 THEN TopOf(FieldKeyOrder[Position(name)])
        ELSE PropOf(FieldKeyOrder[Position(name)]))
  ELSE CASE name = "User" -> DataOf("customer_user_id")
         [] name = "Profile ID" -> DataOf("profile_id")
         [] name = "Product" -> IF Present(SubscriptionOf("product_id"))
                                THEN SubscriptionOf("product_id")
                                ELSE TransactionOf("product_id")
         [] name = "Status" -> SubscriptionOf("status")
         [] name = "Store" -> SubscriptionOf("store")
         [] name = "Environment" -> IF Present(SubscriptionOf("is_sandbox"))
                                    THEN SubscriptionOf("is_sandbox")
                                    ELSE TransactionOf("is_sandbox")
         [] name = "Started At" -> SubscriptionOf("started_at")
         [] name = "Expires At" -> SubscriptionOf("expires_at")
         [] name = "Transaction ID" -> TransactionOf("id")
         [] name = "Amount" -> TransactionOf("value")
         [] name = "Restored" -> TransactionOf("is_restored")
         [] OTHER -> Absent

\* A rendered text with no character in it.
EmptyText(text) == \A i \in 1..Len(text) : text[i] = Lit("")

\* C11: every field of a rendered subscription event has a non-empty value
\* and is rendered from a source value that is present and non-empty
\* (non-zero for a number).
C11_FieldsOnlyForPresentValues ==
  AdaptyRendered =>
    \A i \in 1..Len(Embed.Fields) :
      /\ ~EmptyText(Embed.Fields[i].Value)
      /\ Present(SourceOf(Embed.Fields[i].Name))

\* The names are all in FieldOrder, and in its order.
OrderedFields(names) ==
  /\ \A i \in 1..Len(names) : InOrder(names[i])
  /\ \A i, j \in 1..Len(names) : i < j => Position(names[i]) < Position(names[j])

\* The guard adaptyMapToDiscord puts on the field at position i of FieldOrder.
MapSourcePasses(i) ==
  LET v == SourceOf(FieldOrder[i])
  IN IF FieldKeyOrder[i] \in MapBoolKeys THEN v.t = "bool"
     ELSE IF FieldKeyOrder[i] \in MapNumKeys THEN v.t \in {"num", "frac"}
     ELSE v.t = "str" /\ v.v # ""

\* C12 as stated: for every subscription event the names of the fields of
\* the embed form a subsequence of the one fixed order.
C12_Original == AdaptyRendered => OrderedFields(FieldNames(Embed.Fields))

\* C12, amended: for every subscription event rendered by adaptyMapToDiscord
\* the names of the fields form a subsequence of the fixed order: a name is
\* in the embed exactly when its key passes the renderer's guard, and any
\* two names keep the order of the list whatever other fields are present.
C12_FieldOrderFixed ==
  (AdaptyRendered /\ variant = "map") =>
    /\ OrderedFields(FieldNames(Embed.Fields))
    /\ \A i \in 1..Len(FieldOrder) :
         HasField(Embed.Fields, FieldOrder[i]) <=> MapSourcePasses(i)

C12_Witness ==
  /\ AdaptyRendered
  /\ variant = "map"
  /\ FieldNames(Embed.Fields) = FieldOrder

\* C13: a JSON object that is not a monitoring incident, has no event_type
\* and has a top-level string event other than "isMount" is accepted by the
\* processPayload that has the `event` fallback (the map-form one) as a
\* minimal subscription event: sender "Adapty", title "Adapty: <event>",
\* description "Received event: <event>", gray, no fields.
C13_BareEventFallback ==
  (/\ Processed
   /\ variant = "map"
   /\ TopOf("incident").t = "absent"
   /\ TopOf("data").t \in {"absent", "obj"}
   /\ TopOf("event_type").t = "absent"
   /\ IsStr(TopOf("event"))
   /\ TopOf("event").v # "isMount")
  => /\ perr = "none"
     /\ Rendered
     /\ msg.Username = "Adapty"
     /\ Embed.Title = <<Lit("Adapty: "), Lit(TopOf("event").v)>>
     /\ Embed.Description = <<Lit("Received event: "), Lit(TopOf("event").v)>>
     /\ Embed.Color = 7506394
     /\ Embed.Fields = <<>>

DeliveryFailed == outcome \in {"error", "non2xx"}

\* C14: F ends with 400 when processPayload fails (malformed or unrecognized
\* payload) and with 500 when the outbound delivery fails (transport error
\* or non-2xx status); a 400 is never preceded by a delivery attempt.
C14_ErrorStatuses ==
  /\ (Processed /\ perr # "none")
       => /\ pc = "done"
          /\ status = 400
          /\ resp = Text("invalid payload format")
          /\ posts = 0
  /\ DeliveryFailed => pc = "done" /\ status = 500
  /\ status = 400 => posts = 0 /\ outcome = "none"

C14_Witness ==
  /\ pc = "done"
  /\ perr = "none"
  /\ outcome = "non2xx"
  /\ status = 500

\* C15: in one execution of F the outbound POST is attempted at most once,
\* and after a failed attempt (transport error, non-2xx status) F has ended:
\* the attempt is not repeated.
C15_AtMostOnce ==
  /\ posts <= 1
  /\ posts = 1 <=> outcome # "none"
  /\ DeliveryFailed => pc = "done" /\ posts = 1

C15_Witness ==
  /\ pc = "done"
  /\ outcome = "error"
  /\ posts = 1
  /\ status = 500

\* C16: the delivery target is chosen by the sender label alone: "GCP
\* Monitoring" goes to the GCP webhook URL and "Adapty" to the Adapty one;
\* every message of processPayload carries one of the two labels, so F
\* answers 500 only after a failed delivery, and a monitoring incident never
\* goes to the Adapty URL nor a subscription event to the GCP URL.
C16_TargetBySenderLabel ==
  /\ Rendered => msg.Username \in {"GCP Monitoring", "Adapty"}
  /\ (Rendered /\ pc # "select")
       => /\ msg.Username = "GCP Monitoring" => target = env.gcpUrl
          /\ msg.Username = "Adapty" => target = env.adaptyUrl
          /\ tried = <<"gcp">> <=> target = env.gcpUrl
          /\ target # env.adaptyUrl <=> target = env.gcpUrl
  /\ (pc = "done" /\ status = 500) => DeliveryFailed

C16_Witness ==
  /\ pc = "done"
  /\ posts = 1
  /\ WellTypedIncident
  /\ TopOf("event_type") = Str("subscription_started")
  /\ msg.Username = "GCP Monitoring"
  /\ target = env.gcpUrl

\* A subscription-event payload: an object with no incident, a non-empty
\* string event_type, and no field of a type other than the one the variant
\* decodes it into (the map form decodes every JSON value).
SubscriptionPayload ==
  /\ req.body.t = "obj"
  /\ TopOf("incident").t = "absent"
  /\ IsStr(TopOf("event_type"))
  /\ TopOf("event_type").v # ""
  /\ variant = "strict"
       => /\ TypeOK(TopOf("event"), "string")
          /\ TypeOK(TopOf("timestamp"), "int64")
          /\ DataOK(TopOf("data"))

\* C17: an absent optional field never makes processPayload fail: a payload
\* with a non-empty incident_id yields a monitoring message whichever of the
\* other incident fields are absent, and a subscription-event payload with
\* an event_type yields a subscription message whichever optional fields and
\* nested substructures are absent.
C17_MissingFieldsNeverFail ==
  Processed =>
    /\ WellTypedIncident => perr = "none" /\ GcpRendered
    /\ SubscriptionPayload => perr = "none" /\ AdaptyRendered

C17_Witness ==
  /\ Processed
  /\ variant = "strict"
  /\ SubscriptionPayload
  /\ TopOf("data").t = "obj"
  /\ DataOf("profile_id").t = "absent"
  /\ DataOf("subscription").t = "absent"
  /\ DataOf("transaction") = Obj(NoTransaction)
  /\ AdaptyRendered

\* The string a text of literal pieces stands for.
RECURSIVE TextString(_)
TextString(text) == IF text = <<>> THEN "" ELSE text[1].s \o TextString(Tail(text))

\* A token split on underscore, the first letter of each non-empty segment
\* capitalized, the segments joined with single spaces: the expected result
\* for the tokens that are in no lookup table or in only one.
Titled(token) ==
  CASE token = "" -> ""
    [] token = "custom_event" -> "Custom Event"
    [] token = "transaction_completed" -> "Transaction Completed"
    [] token = "transaction_restored" -> "Transaction Restored"
    [] token = "a__b" -> "A  B"
    [] token = "_x" -> " X"
    [] token = "subscription_in_grace_period" -> "Subscription In Grace Period"
    [] token = "non_subscription_purchase" -> "Non Subscription Purchase"
    [] token = "subscription_renewal_cancelled" -> "Subscription Renewal Cancelled"
    [] token = "subscription_renewal_reactivated" -> "Subscription Renewal Reactivated"
    [] token = "subscription_paused" -> "Subscription Paused"
    [] token = "subscription_deferred" -> "Subscription Deferred"
    [] token = "trial_renewal_cancelled" -> "Trial Renewal Cancelled"
    [] token = "trial_renewal_reactivated" -> "Trial Renewal Reactivated"
    [] token = "entered_grace_period" -> "Entered Grace Period"
    [] token = "billing_issue_detected" -> "Billing Issue Detected"
    [] token = "subscription_refunded" -> "Subscription Refunded"
    [] token = "non_subscription_purchase_refunded" -> "Non Subscription Purchase Refunded"
    [] token = "access_level_updated" -> "Access Level Updated"

Labels == IF variant = "map" THEN MapLabels ELSE StrictLabels

\* C18 as stated: the title of a subscription event is "Adapty: " and the
\* label of its event_type, which is the phrase of the lookup table for a
\* known token and the titled token (split on underscore, capitalized,
\* joined with spaces) for an unknown one.
C18_Original ==
  (AdaptyRendered /\ IsStr(TopOf("event_type"))) =>
    LET et == TopOf("event_type").v
    IN TextString(Embed.Title)
         = "Adapty: " \o (IF et \in DOMAIN Labels THEN Labels[et] ELSE Titled(et))

\* C18, amended: the same for the map-form formatEventType and its table of
\* 21 tokens; the strict-form formatEventType has a table of 10 tokens and
\* returns every other token unchanged.  In both, the title is "Adapty: "
\* and that label.
C18_FormatEventType ==
  AdaptyRendered =>
    LET et == StrOf(TopOf("event_type"))
    IN TextString(Embed.Title)
         = "Adapty: " \o (IF et \in DOMAIN Labels THEN Labels[et]
                          ELSE IF variant = "map" THEN Titled(et) ELSE et)

C18_Witness ==
  /\ AdaptyRendered
  /\ variant = "map"
  /\ TopOf("event_type") = Str("a__b")
  /\ TextString(Embed.Title) = "Adapty: A  B"

\* C19: every message processPayload returns without error, whichever path
\* classified it (incident, map-form event, strict-form event, and the
\* message of the event fallback), has exactly one embed.
C19_ExactlyOneEmbed ==
  /\ Rendered => perr = "none" /\ Len(msg.Embeds) = 1
  /\ Len(partialAdaptyEvent("custom_event", now).Embeds) = 1

C19_Witness ==
  /\ AdaptyRendered
  /\ variant = "strict"
  /\ DataOf("subscription") = Obj(FullSubscription)
  /\ DataOf("transaction") = Obj(FullTransaction)
  /\ Len(Embed.Fields) > 1
  /\ Len(msg.Embeds) = 1

\* Two results of processPayload that differ at most in the render
\* timestamp of the embeds.
SameButTimestamp(a, b) ==
  /\ a.err = b.err
  /\ a.tried = b.tried
  /\ IF a.msg = NoMsg \/ b.msg = NoMsg THEN a.msg = b.msg
     ELSE /\ a.msg.Username = b.msg.Username
          /\ a.msg.AvatarURL = b.msg.AvatarURL
          /\ Len(a.msg.Embeds) = Len(b.msg.Embeds)
          /\ \A i \in 1..Len(a.msg.Embeds) :
               [a.msg.Embeds[i] EXCEPT !.Timestamp = 0]
                 = [b.msg.Embeds[i] EXCEPT !.Timestamp = 0]

\* The times a second run of processPayload on the same bytes may happen at.
OtherTimes == 1..(MaxNow + 1)

Credentialed ==
  \/ env.adaptyToken # "" /\ req.authHeader = env.adaptyToken
  \/ env.gcpToken # "" /\ req.authQuery = env.gcpToken

ValidRequest == req.method = "POST" /\ req.ctype = "application/json"

\* No body read, no probe answer, no classification, no delivery.
Untouched == ~bodyRead /\ Unclassified /\ resp.k # "json" /\ outcome = "none"

\* C21 as stated: for a request without a matching non-empty token F never
\* answers a probe, classifies or delivers, and the request ends with 401.
C21_Original ==
  ~Credentialed => /\ Untouched
                   /\ pc = "done" => status = 401

\* C21, amended: the same, where the 401 is the end of the requests that are
\* POST with content type application/json; any other request has ended with
\* 400 "invalid request" before its credentials are looked at.  With both
\* tokens unset or empty, and with an empty received token, no request gets
\* past the authentication.
C21_UnauthenticatedRejected ==
  /\ ~Credentialed
       => /\ Untouched
          /\ pc \notin {"read", "probe", "process", "select", "deliver"}
          /\ pc = "done" => IF ValidRequest
                            THEN status = 401 /\ resp = Text("unauthorized")
                            ELSE status = 400 /\ resp = Text("invalid request")
  /\ (env.adaptyToken = "" /\ env.gcpToken = "") => Untouched /\ status \in {0, 400, 401}
  /\ (req.authHeader = "" /\ req.authQuery = "") => Untouched /\ status \in {0, 400, 401}

C21_Witness ==
  /\ pc = "done"
  /\ status = 401
  /\ env.adaptyToken = ""
  /\ env.gcpToken = "tokG"
  /\ req.authHeader = ""
  /\ req.authQuery = ""
  /\ HasCheck

\* The request is one of the verification probes the map-form F answers.
ProbeRequest == variant = "map" /\ (HasCheck \/ IsMount)

\* C22: for a request that is not a probe, F answers 200 only after exactly
\* one outbound POST of the rendered message got a 2xx status, and the body
\* of the 200 is the message that was posted; a 2xx delivery is answered
\* with 200.
C22_OkOnlyAfterDelivery ==
  /\ (status = 200 /\ ~ProbeRequest)
       => /\ pc = "done"
          /\ posts = 1
          /\ outcome = "2xx"
          /\ perr = "none"
          /\ Rendered
          /\ resp = msg
  /\ outcome = "2xx" => status = 200 /\ resp = msg
  /\ (status = 200 /\ ProbeRequest) => posts = 0 /\ resp # msg

C22_Witness ==
  /\ pc = "done"
  /\ status = 200
  /\ variant = "strict"
  /\ TopOf("event") = Str("isMount")
  /\ AdaptyRendered
  /\ posts = 1
  /\ resp = msg

\* C23: in the embed of a rendered subscription event (map form or strict
\* form) no two fields have the same name, whichever of the subscription and
\* transaction substructures are present.
C23_FieldNamesUnique ==
  AdaptyRendered =>
    \A i, j \in 1..Len(Embed.Fields) :
      i # j => Embed.Fields[i].Name # Embed.Fields[j].Name

\* F has answered one of the two probe responses.
ProbeAnswered == resp.k = "json"

\* C24: F checks method and content type first, then the credentials, then
\* the verification probes, then classifies, then delivers: each step has
\* happened only for a request that passed the ones before it.  A request
\* that is not POST with content type application/json ends with 400
\* "invalid request" whatever its credentials and body, with no body read,
\* no probe response, no classification and no delivery.
C24_OrderOfChecks ==
  /\ pc \in {"auth", "read", "probe", "process", "select", "deliver"} => ValidRequest
  /\ pc \in {"read", "probe", "process", "select", "deliver"} => Credentialed
  /\ bodyRead => ValidRequest /\ Credentialed
  /\ ProbeAnswered => bodyRead /\ ~Processed /\ posts = 0
  /\ Processed => bodyRead /\ ~ProbeAnswered /\ ~ProbeRequest
  /\ pc \in {"select", "deliver"} \/ posts > 0 => Processed /\ perr = "none"
  /\ ~ValidRequest
       => /\ Untouched
          /\ pc \in {"start", "fatal", "method", "done"}
          /\ pc = "done" => status = 400 /\ resp = Text("invalid request")

C24_Witness ==
  /\ pc = "done"
  /\ status = 400
  /\ resp = Text("invalid request")
  /\ req.method = "POST"
  /\ req.ctype = "text/plain"
  /\ Credentialed
  /\ HasCheck
  /\ ~bodyRead

====
